---------------------------- MODULE Spec2Model ----------------------------
(* A model of normxsd.py: the XML-schema normalisation pipeline           *)
(* (transform and the rewrite rules it applies to an element tree) and    *)
(* the batch driver (parse_args, iterfiles, outputfile, main).            *)
(*                                                                         *)
(* Strings the program only compares (tags, attribute names and values,   *)
(* path components) are TLA+ strings, ordered through Chars and Ord the   *)
(* way Python orders str values (by code point).  Strings the program     *)
(* rewrites (text and tail) are tuples of one-character strings, with     *)
(* NoneT standing for Python's None.                                       *)
EXTENDS Integers, Sequences, FiniteSets, TLC

VARIABLES pc, input, root, doc,
          dpc, argv, fsFiles, fsDirs, stack, cur, outFile, loaded, log

tvars == <<pc, input, root, doc>>
dvars == <<dpc, argv, fsFiles, fsDirs, stack, cur, outFile, loaded, log>>
vars == <<pc, input, root, doc, dpc, argv, fsFiles, fsDirs, stack, cur, outFile, loaded, log>>

(* ---------------------------------------------------------------------- *)
(* Bounds of the model.                                                   *)
(* ---------------------------------------------------------------------- *)

\* The largest number of elements of an input document.
MaxNodes == 4

\* The largest number of parts of the absolute path of a file main writes. A run
\* that is about to write deeper is followed no further.
MaxPathLen == 6

(* ---------------------------------------------------------------------- *)
(* Python str values: characters, code points, comparison, strip.         *)
(* ---------------------------------------------------------------------- *)

\* The printable ASCII characters in code-point order, from 32 to 126 (the grave
\* accent, 96, is spelled out: the model uses no such character).
ASCII ==
  << " ", "!", "\"", "#", "$", "%", "&", "'", "(", ")", "*", "+", ",", "-", ".", "/",
     "0", "1", "2", "3", "4", "5", "6", "7", "8", "9", ":", ";", "<", "=", ">", "?",
     "@", "A", "B", "C", "D", "E", "F", "G", "H", "I", "J", "K", "L", "M", "N", "O",
     "P", "Q", "R", "S", "T", "U", "V", "W", "X", "Y", "Z", "[", "\\", "]", "^", "_",
     "(grave)", "a", "b", "c", "d", "e", "f", "g", "h", "i", "j", "k", "l", "m", "n", "o",
     "p", "q", "r", "s", "t", "u", "v", "w", "x", "y", "z", "{", "|", "}", "~" >>

\* The characters outside ASCII's printable range that the model uses, each with
\* its code point. A character that cannot be spelled in a string of this module
\* is written as its code point in parentheses.
Others ==
  << <<"\t", 9>>, <<"\n", 10>>, <<"(U+000B)", 11>>, <<"\f", 12>>, <<"\r", 13>>,
     <<"(U+001C)", 28>>, <<"(U+001D)", 29>>, <<"(U+001E)", 30>>, <<"(U+001F)", 31>>,
     <<"(U+0085)", 133>>, <<"(U+00A0)", 160>>, <<"(U+1680)", 5760>>,
     <<"(U+2000)", 8192>>, <<"(U+2001)", 8193>>, <<"(U+2002)", 8194>>,
     <<"(U+2003)", 8195>>, <<"(U+2004)", 8196>>, <<"(U+2005)", 8197>>,
     <<"(U+2006)", 8198>>, <<"(U+2007)", 8199>>, <<"(U+2008)", 8200>>,
     <<"(U+2009)", 8201>>, <<"(U+200A)", 8202>>, <<"(U+2028)", 8232>>,
     <<"(U+2029)", 8233>>, <<"(U+202F)", 8239>>, <<"(U+205F)", 8287>>,
     <<"(U+3000)", 12288>> >>

\* ord(c) for the characters the model uses.
Ord(c) ==
  IF \E i \in 1..Len(Others) : Others[i][1] = c
  THEN Others[CHOOSE i \in 1..Len(Others) : Others[i][1] = c][2]
  ELSE 31 + (CHOOSE i \in 1..Len(ASCII) : ASCII[i] = c)

\* The namespace of XML Schema, as written in the source.
XSD == "http://www.w3.org/2001/XMLSchema"

\* The characters of each string the model compares.
Chars(s) ==
  CASE s = "" -> <<>>
    [] s = "a" -> <<"a">>
    [] s = "b" -> <<"b">>
    [] s = "t" -> <<"t">>
    [] s = "name" -> <<"n", "a", "m", "e">>
    [] s = "type" -> <<"t", "y", "p", "e">>
    [] s = "all" -> <<"a", "l", "l">>
    [] s = "annotation" -> <<"a", "n", "n", "o", "t", "a", "t", "i", "o", "n">>
    [] s = "any" -> <<"a", "n", "y">>
    [] s = "choice" -> <<"c", "h", "o", "i", "c", "e">>
    [] s = "element" -> <<"e", "l", "e", "m", "e", "n", "t">>
    [] s = "sequence" -> <<"s", "e", "q", "u", "e", "n", "c", "e">>
    [] s = XSD -> <<"h", "t", "t", "p", ":", "/", "/", "w", "w", "w", ".", "w", "3", ".",
                    "o", "r", "g", "/", "2", "0", "0", "1", "/",
                    "X", "M", "L", "S", "c", "h", "e", "m", "a">>
    [] s = "a.xsd" -> <<"a", ".", "x", "s", "d">>
    [] s = "b.xsd" -> <<"b", ".", "x", "s", "d">>
    [] s = "c.txt" -> <<"c", ".", "t", "x", "t">>
    [] s = "d.xsd" -> <<"d", ".", "x", "s", "d">>
    [] s = ".xsd" -> <<".", "x", "s", "d">>
    [] s = "sub" -> <<"s", "u", "b">>
    [] s = "out" -> <<"o", "u", "t">>
    [] s = "w" -> <<"w">>
    [] s = "/" -> <<"/">>

RECURSIVE FirstDiff(_, _, _)
\* The first index from i at which a and b differ, or at which one of them ends.
FirstDiff(a, b, i) ==
  IF i > Len(a) \/ i > Len(b) \/ a[i] # b[i] THEN i ELSE FirstDiff(a, b, i + 1)

\* a < b for two str values given by their characters.
StrLess(a, b) ==
  LET i == FirstDiff(a, b, 1)
  IN IF i > Len(b) THEN FALSE
     ELSE IF i > Len(a) THEN TRUE
     ELSE Ord(a[i]) < Ord(b[i])

\* The characters str.strip() removes: those for which str.isspace() holds.
Whitespace == {" "} \cup { Others[i][1] : i \in 1..Len(Others) }

\* str.strip()
Strip(s) ==
  LET keep == {i \in 1..Len(s) : s[i] \notin Whitespace}
  IN IF keep = {} THEN <<>>
     ELSE LET lo == CHOOSE i \in keep : \A j \in keep : i <= j
              hi == CHOOSE i \in keep : \A j \in keep : j <= i
          IN SubSeq(s, lo, hi)

\* None, as the value of text or tail.
NoneT == <<"None">>

\* bool(s) for an optional str.
Truthy(s) == s # NoneT /\ s # <<>>

\* sorted(xs, key=...): keys[i] is the key of xs[i]; stable, ascending.
Sorted(xs, keys) ==
  LET n == Len(xs)
      before(j, i) == IF keys[j] = keys[i] THEN j < i ELSE StrLess(keys[j], keys[i])
      rank == [i \in 1..n |-> 1 + Cardinality({j \in 1..n : before(j, i)})]
  IN [r \in 1..n |-> xs[CHOOSE i \in 1..n : rank[i] = r]]

(* ---------------------------------------------------------------------- *)
(* Elements.  An element is a record                                      *)
(*   id       the element's position in the input document (the child     *)
(*            indices from the root), standing for the object's identity   *)
(*   tag      [ns, local]; element.tag is "{ns}local", or "local"         *)
(*   attrib   the attribute dict, as the sequence of its items            *)
(*   text, tail, children                                                 *)
(* ---------------------------------------------------------------------- *)

\* element.tag, as Python's str
TagStr(e) ==
  IF e.tag.ns = "" THEN Chars(e.tag.local)
  ELSE <<"{">> \o Chars(e.tag.ns) \o <<"}">> \o Chars(e.tag.local)

QName(ns, local) == [ns |-> ns, local |-> local]

\* element.get(key, default)
Get(e, key, default) ==
  IF \E i \in 1..Len(e.attrib) : e.attrib[i][1] = key
  THEN e.attrib[CHOOSE i \in 1..Len(e.attrib) : e.attrib[i][1] = key][2]
  ELSE default

ANNOTATION == <<"{">> \o Chars(XSD) \o <<"}">> \o Chars("annotation")

\* Mutant of remove_annotations: every child whose local name is "annotation" is
\* removed, whatever its namespace.
remove_annotations_any_namespace(e) ==
  [e EXCEPT !.children = SelectSeq(e.children, LAMBDA c : c.tag.local # "annotation")]

remove_annotations(e) ==
  [e EXCEPT !.children = SelectSeq(e.children, LAMBDA c : TagStr(c) # ANNOTATION)]

strip_text(e) ==
  IF Truthy(e.text) THEN [e EXCEPT !.text = Strip(e.text)] ELSE e

SORTABLE_ELEMENTS ==
  { <<"{">> \o Chars(XSD) \o <<"}">> \o Chars(l) : l \in {"all", "choice", "sequence"} }

\* Mutant of sort_elements_by_name_attr: the sorted list is not assigned back.
sort_elements_by_name_attr_discarded(e) == e

sort_elements_by_name_attr(e) ==
  IF TagStr(e) \in SORTABLE_ELEMENTS
  THEN [e EXCEPT !.children =
          Sorted(e.children, [i \in 1..Len(e.children) |-> Chars(Get(e.children[i], "name", ""))])]
  ELSE e

\* sorted(attrs.items()): the (key, value) tuples in ascending order. The keys of a
\* dict differ, so the order is that of the keys.
sort_attributes(e) ==
  IF e.attrib # <<>>
  THEN [e EXCEPT !.attrib =
          Sorted(e.attrib, [i \in 1..Len(e.attrib) |-> Chars(e.attrib[i][1])])]
  ELSE e

\* Mutant of sort_elements_by_tag_name: the sorted list is not assigned back.
sort_elements_by_tag_name_discarded(e) == e

sort_elements_by_tag_name(e) ==
  [e EXCEPT !.children =
     Sorted(e.children, [i \in 1..Len(e.children) |-> TagStr(e.children[i])])]

\* The rule list of transform, in order.
TRANSFORMATIONS ==
  <<"remove_annotations", "strip_text", "sort_elements_by_name_attr", "sort_attributes">>

\* transformation(element)
Apply(t, e) ==
  CASE t = "remove_annotations" -> remove_annotations(e)
    [] t = "strip_text" -> strip_text(e)
    [] t = "sort_elements_by_name_attr" -> sort_elements_by_name_attr(e)
    [] t = "sort_attributes" -> sort_attributes(e)

RECURSIVE ApplyAll(_, _)
\* for transformation in transformations: element = transformation(element)
ApplyAll(ts, e) ==
  IF ts = <<>> THEN e ELSE ApplyAll(Tail(ts), Apply(Head(ts), e))

\* Mutant of transform_tree: the rules are applied to the element, not to its children.
transform_tree_no_recursion(ts, e) == ApplyAll(ts, e)

RECURSIVE transform_tree(_, _)
transform_tree(ts, e) ==
  LET here == ApplyAll(ts, e)
  IN [here EXCEPT !.children =
        [i \in 1..Len(here.children) |-> transform_tree(ts, here.children[i])]]

\* "\n" + level * space, with space = two blanks
Indentation(level) ==
  <<"\n">> \o [i \in 1..(2 * level) |-> " "]

\* not s or not s.strip()
Blank(s) == ~Truthy(s) \/ Strip(s) = <<>>

RECURSIVE indent_children(_, _)
\* ElementTree.indent's _indent_children, called on elements that have children
indent_children(elem, level) ==
  LET child_indentation == Indentation(level + 1)
      n == Len(elem.children)
      one(c) ==
        LET d == IF Len(c.children) > 0 THEN indent_children(c, level + 1) ELSE c
        IN [d EXCEPT !.tail = IF Blank(d.tail) THEN child_indentation ELSE d.tail]
      kids == [i \in 1..n |-> one(elem.children[i])]
      last == kids[n]
  IN [elem EXCEPT
        !.text = IF Blank(elem.text) THEN child_indentation ELSE elem.text,
        !.children = [kids EXCEPT ![n] =
            [last EXCEPT !.tail = IF Strip(last.tail) = <<>> THEN Indentation(level)
                                  ELSE last.tail]]]

\* ET.indent(element, space=' ' * 2, level=0)
format_tree(e) ==
  IF Len(e.children) = 0 THEN e ELSE indent_children(e, 0)

\* transform, lines 127 to 129: the tree that is saved for a loaded tree
Pipeline(e) ==
  format_tree(sort_elements_by_tag_name(transform_tree(TRANSFORMATIONS, e)))

\* A document is written here as a tree whose text and tail are the units between
\* the tags, as they stand in the file: a unit is a character, or a reference
\* ("&#13;", "&amp;", ...) that stands for one.

\* The references of the documents of the model, each with its character.
References ==
  << <<"&#9;", "\t">>, <<"&#10;", "\n">>, <<"&#13;", "\r">>, <<"&#160;", "(U+00A0)">>,
     <<"&amp;", "&">>, <<"&lt;", "<">>, <<"&gt;", ">">> >>

\* The character a unit of a document stands for.
Deref(u) ==
  IF \E i \in 1..Len(References) : References[i][1] = u
  THEN References[CHOOSE i \in 1..Len(References) : References[i][1] = u][2]
  ELSE u

RECURSIVE LineEnds(_)
\* The parser's treatment of line ends: a carriage return that stands in the file
\* before a line feed is dropped, any other becomes a line feed. A carriage
\* return given by a reference is not one that stands in the file.
LineEnds(s) ==
  IF s = <<>> THEN <<>>
  ELSE IF Head(s) = "\r"
       THEN IF Len(s) >= 2 /\ s[2] = "\n" THEN LineEnds(Tail(s))
            ELSE <<"\n">> \o LineEnds(Tail(s))
       ELSE <<Head(s)>> \o LineEnds(Tail(s))

\* Character data as the parser gives it: line ends are normalised, references
\* are replaced by their characters, and there is None where the document has no
\* character data.
Parsed(s) ==
  LET n == LineEnds(s)
      t == [i \in 1..Len(n) |-> Deref(n[i])]
  IN IF t = <<>> THEN NoneT ELSE t

RECURSIVE Element(_)
\* The element the parser builds for an element of a document: an element without
\* character data has text None, and so for tail.
Element(d) ==
  [d EXCEPT !.text = Parsed(d.text), !.tail = Parsed(d.tail),
            !.children = [i \in 1..Len(d.children) |-> Element(d.children[i])]]

\* ET.parse(filename).getroot(): the parser reports no character data outside the
\* root element, so the root's tail is None whatever white space follows it.
loadxml(d) == [Element(d) EXCEPT !.tail = NoneT]

\* ElementTree's _escape_cdata for one character: "&", "<" and ">" are written as
\* references, every other character as it is, a carriage return too.
Escape(c) ==
  CASE c = "&" -> "&amp;"
    [] c = "<" -> "&lt;"
    [] c = ">" -> "&gt;"
    [] OTHER -> c

\* Character data as it is written: None and "" both write nothing
Written(s) == IF s = NoneT THEN <<>> ELSE [i \in 1..Len(s) |-> Escape(s[i])]

RECURSIVE savexml(_)
\* ElementTree.write
savexml(e) ==
  [e EXCEPT !.text = Written(e.text), !.tail = Written(e.tail),
            !.children = [i \in 1..Len(e.children) |-> savexml(e.children[i])]]

(* ---------------------------------------------------------------------- *)
(* Input documents: every tree of at most MaxNodes elements, each element *)
(* one of Kinds.                                                          *)
(* ---------------------------------------------------------------------- *)

Kinds ==
  { [tag |-> QName(XSD, "annotation"), attrib |-> <<>>,
     text |-> <<"x">>, tail |-> <<>>],
    [tag |-> QName(XSD, "sequence"), attrib |-> <<>>,
     text |-> <<"\r", "\n", " ">>, tail |-> <<>>],
    [tag |-> QName(XSD, "element"), attrib |-> << <<"type", "t">>, <<"name", "a">> >>,
     text |-> <<>>, tail |-> <<"t", "&#13;">>],
    [tag |-> QName(XSD, "any"), attrib |-> << <<"name", "b">> >>,
     text |-> <<"(U+00A0)", "&lt;", "x", " ">>, tail |-> <<"(U+00A0)">>],
    [tag |-> QName("", "annotation"), attrib |-> <<>>,
     text |-> <<" ">>, tail |-> <<>>] }

MkNode(k, kids) ==
  [id |-> <<>>, tag |-> k.tag, attrib |-> k.attrib, text |-> k.text, tail |-> k.tail,
   children |-> kids]

\* The sequences of trees of n elements in all.
Forests[n \in 0..MaxNodes] ==
  IF n = 0 THEN {<<>>}
  ELSE UNION { { <<MkNode(k, kids)>> \o rest :
                   k \in Kinds, kids \in Forests[m - 1], rest \in Forests[n - m] }
               : m \in 1..n }

RECURSIVE Label(_, _)
\* t with every element's id set to its position: the child indices from the root
Label(t, path) ==
  [t EXCEPT !.id = path,
            !.children = [i \in 1..Len(t.children) |-> Label(t.children[i], path \o <<i>>)]]

\* A document: a root element with up to MaxNodes - 1 elements below it. Only
\* white space can follow the root element of a document: here a line end, after
\* a root of the schema namespace, or nothing.
InputTrees ==
  { Label([MkNode(k, kids) EXCEPT !.tail = IF k.tag.ns = XSD THEN <<"\r", "\n">> ELSE <<>>],
          <<>>) :
      k \in Kinds, kids \in UNION { Forests[n] : n \in 0..(MaxNodes - 1) } }

NoTree == MkNode([tag |-> QName("", ""), attrib |-> <<>>, text |-> NoneT, tail |-> NoneT], <<>>)

(* ---------------------------------------------------------------------- *)
(* transform(input_file, output_file), one action per line.               *)
(* ---------------------------------------------------------------------- *)

NoDriver ==
  /\ dpc = "off" /\ argv = <<>> /\ fsFiles = <<>> /\ fsDirs = {}
  /\ stack = <<>> /\ cur = <<>> /\ outFile = <<>> /\ loaded = "" /\ log = <<>>

TInit ==
  /\ pc = "loadxml"
  /\ input \in InputTrees
  /\ root = NoTree
  /\ doc = NoTree
  /\ NoDriver

\* root = loadxml(input_file)
LoadXml ==
  /\ pc = "loadxml"
  /\ root' = loadxml(input)
  /\ pc' = "transform_tree"
  /\ UNCHANGED <<input, doc>>
  /\ UNCHANGED dvars

\* root = transform_tree(transformations, root)
TransformTree ==
  /\ pc = "transform_tree"
  /\ root' = transform_tree(TRANSFORMATIONS, root)
  /\ pc' = "sort_elements_by_tag_name"
  /\ UNCHANGED <<input, doc>>
  /\ UNCHANGED dvars

\* root = sort_elements_by_tag_name(root)
SortElementsByTagName ==
  /\ pc = "sort_elements_by_tag_name"
  /\ root' = sort_elements_by_tag_name(root)
  /\ pc' = "format_tree"
  /\ UNCHANGED <<input, doc>>
  /\ UNCHANGED dvars

\* root = format_tree(root)
FormatTree ==
  /\ pc = "format_tree"
  /\ root' = format_tree(root)
  /\ pc' = "savexml"
  /\ UNCHANGED <<input, doc>>
  /\ UNCHANGED dvars

\* savexml(root, output_file)
SaveXml ==
  /\ pc = "savexml"
  /\ doc' = savexml(root)
  /\ pc' = "done"
  /\ UNCHANGED <<input, root>>
  /\ UNCHANGED dvars

TNext == LoadXml \/ TransformTree \/ SortElementsByTagName \/ FormatTree \/ SaveXml

Spec == TInit /\ [][TNext]_vars

(* ---------------------------------------------------------------------- *)
(* Properties of the pipeline.                                            *)
(* ---------------------------------------------------------------------- *)

RECURSIVE Paths(_)
\* The positions of the elements of t: the child indices from t
Paths(t) ==
  {<<>>} \cup UNION { { <<i>> \o p : p \in Paths(t.children[i]) } : i \in 1..Len(t.children) }

RECURSIVE At(_, _)
\* The element of t at position p
At(t, p) == IF p = <<>> THEN t ELSE At(t.children[Head(p)], Tail(p))

\* The elements of t
Elements(t) == { At(t, p) : p \in Paths(t) }

Front(p) == SubSeq(p, 1, Len(p) - 1)

IsAnnotation(e) == e.tag = QName(XSD, "annotation")

IsSortable(e) ==
  e.tag \in { QName(XSD, "all"), QName(XSD, "choice"), QName(XSD, "sequence") }

\* The tree loaded from the input document
Loaded == loadxml(input)

\* The tags of kids never descend
TagSorted(kids) ==
  \A i \in 1..(Len(kids) - 1) : ~StrLess(TagStr(kids[i + 1]), TagStr(kids[i]))

NameOf(e) == Chars(Get(e, "name", ""))

\* The position of an element among its siblings in the input
InputIndex(e) == e.id[Len(e.id)]

\* kids are in ascending order of name, equal names in input order
NameSorted(kids) ==
  \A i \in 1..Len(kids) : \A j \in (i + 1)..Len(kids) :
     \/ StrLess(NameOf(kids[i]), NameOf(kids[j]))
     \/ NameOf(kids[i]) = NameOf(kids[j]) /\ InputIndex(kids[i]) < InputIndex(kids[j])

\* kids are in ascending order of tag, equal tags in ascending order of name, equal
\* tags and names in input order
TagThenNameSorted(kids) ==
  \A i \in 1..Len(kids) : \A j \in (i + 1)..Len(kids) :
     \/ StrLess(TagStr(kids[i]), TagStr(kids[j]))
     \/ TagStr(kids[i]) = TagStr(kids[j]) /\ StrLess(NameOf(kids[i]), NameOf(kids[j]))
     \/ /\ TagStr(kids[i]) = TagStr(kids[j])
        /\ NameOf(kids[i]) = NameOf(kids[j])
        /\ InputIndex(kids[i]) < InputIndex(kids[j])

\* C1, as stated: after transform, the children of every element of the tree, the
\* root and every descendant, are in ascending order of tag.
C1_EveryElementTagSorted ==
  pc = "done" => \A e \in Elements(root) : TagSorted(e.children)

\* C1, amended: after transform, the children of the root element are in ascending
\* order of tag (sort_elements_by_tag_name is applied to the root alone).
C1_RootChildrenTagSorted ==
  pc = "done" => TagSorted(root.children)

\* C1 witness: a finished run on a document whose root's children were out of tag order.
C1_Witness ==
  /\ pc = "done"
  /\ Len(root.children) >= 2
  /\ ~TagSorted(transform_tree(TRANSFORMATIONS, Loaded).children)

\* C2, as stated: the tree transform produces holds no schema annotation element
\* at any depth.
C2_NoAnnotationAnywhere ==
  pc = "done" => \A e \in Elements(root) : ~IsAnnotation(e)

\* C2, amended: the tree transform produces holds no schema annotation element
\* below the root: no element of it has an annotation child.
C2_NoAnnotationBelowRoot ==
  pc = "done" => \A e \in Elements(root) : \A i \in 1..Len(e.children) : ~IsAnnotation(e.children[i])

\* C2 witness: a finished run on a document that had an annotation two levels
\* below a root that is not one.
C2_Witness ==
  /\ pc = "done"
  /\ ~IsAnnotation(Loaded)
  /\ \E e \in Elements(Loaded) : Len(e.id) = 2 /\ IsAnnotation(e)
                                    /\ ~IsAnnotation(At(Loaded, Front(e.id)))

\* C3, as stated: in the tree transform produces, the children of every all,
\* choice or sequence element, the root included, are in ascending order of their
\* name attribute (none counts as ""), equal names in input order.
C3_EverySortableNameSorted ==
  pc = "done" => \A e \in Elements(root) : IsSortable(e) => NameSorted(e.children)

\* C3, amended: that holds of every all, choice or sequence element below the root;
\* the children of a root that is one are in ascending order of tag, and in
\* ascending order of name only among equal tags.
C3_SortableBelowRootNameSorted ==
  pc = "done" =>
    /\ \A e \in Elements(root) : (IsSortable(e) /\ e.id # <<>>) => NameSorted(e.children)
    /\ IsSortable(root) => TagThenNameSorted(root.children)

\* C3 witness: a finished run in which a sequence below the root had its children
\* reordered, an unnamed one first.
C3_Witness ==
  /\ pc = "done"
  /\ \E e \in Elements(root) :
       /\ IsSortable(e) /\ e.id # <<>> /\ Len(e.children) >= 2
       /\ Get(e.children[1], "name", "none") = "none"
       /\ InputIndex(e.children[1]) > InputIndex(e.children[2])

\* C4, as stated: the pipeline is idempotent: run on the tree it produced it yields
\* the same tree, and run on the document it wrote (normalized output, normalized
\* again) it writes the same document. The second part fails where a text or tail
\* that is kept holds a carriage return: it is written as it is, and read back as
\* a line feed.
C4_Idempotent ==
  pc = "done" =>
    /\ Pipeline(root) = root
    /\ savexml(Pipeline(loadxml(doc))) = doc

\* The elements of the loaded tree that are neither annotations nor inside one
Kept ==
  { e \in Elements(Loaded) :
      \A k \in 0..Len(e.id) : ~IsAnnotation(At(Loaded, SubSeq(e.id, 1, k))) }

AttribMap(e) == { e.attrib[i] : i \in 1..Len(e.attrib) }

\* C10: every element that is neither an annotation nor inside one is in the output
\* exactly once, under the same parent, with the same tag and attributes, its text
\* trimmed if it has any; every element of the output is an element of the input.
C10_OnlyAnnotationsRemoved ==
  pc = "done" =>
    /\ \A e \in Kept :
         /\ Cardinality({p \in Paths(root) : At(root, p).id = e.id}) = 1
         /\ \A p \in Paths(root) :
              At(root, p).id = e.id =>
                /\ At(root, p).tag = e.tag
                /\ AttribMap(At(root, p)) = AttribMap(e)
                /\ Len(At(root, p).attrib) = Len(e.attrib)
                /\ (p = <<>>) = (e.id = <<>>)
                /\ p # <<>> => At(root, Front(p)).id = Front(e.id)
                /\ (Truthy(e.text) /\ Strip(e.text) # <<>>) => At(root, p).text = Strip(e.text)
    /\ \A p \in Paths(root) :
         /\ \E e \in Elements(Loaded) : e.id = At(root, p).id /\ e.tag = At(root, p).tag
         /\ \A q \in Paths(root) : At(root, q).id = At(root, p).id => q = p

\* C10 witness: a finished run that removed an annotation and kept an element
\* named annotation outside the schema namespace, and reordered the root's children.
C10_Witness ==
  /\ pc = "done"
  /\ Cardinality(Paths(root)) < Cardinality(Paths(Loaded))
  /\ \E e \in Elements(root) : e.tag = QName("", "annotation")
  /\ \E i \in 1..Len(root.children) : \E j \in (i + 1)..Len(root.children) :
       InputIndex(root.children[i]) > InputIndex(root.children[j])

(* ---------------------------------------------------------------------- *)
(* Paths.  A path is the tuple of its parts, as pathlib's Path.parts: an  *)
(* absolute path starts with "/", and Path(".") has no parts.             *)
(* ---------------------------------------------------------------------- *)

\* Path.cwd()
CWD == <<"/", "w">>

IsAbsolute(p) == p # <<>> /\ p[1] = "/"

\* Path.absolute(): the working directory is prepended, nothing is normalised
Absolute(p) == IF IsAbsolute(p) THEN p ELSE CWD \o p

\* p / q: an empty part adds nothing
Join(p, q) == IF IsAbsolute(q) THEN q ELSE p \o SelectSeq(q, LAMBDA x : x # "")

\* Path.name
Name(p) == IF p = <<>> \/ p = <<"/">> THEN "" ELSE p[Len(p)]

\* Path.parent
Parent(p) == IF p = <<>> \/ p = <<"/">> THEN p ELSE SubSeq(p, 1, Len(p) - 1)

\* Path.suffix: from the last dot of the name, unless the name starts or ends with it
Suffix(p) ==
  LET name == Chars(Name(p))
      dots == {i \in 1..Len(name) : name[i] = "."}
  IN IF dots = {} THEN <<>>
     ELSE LET i == CHOOSE d \in dots : \A e \in dots : e <= d
          IN IF 1 < i /\ i < Len(name) THEN SubSeq(name, i, Len(name)) ELSE <<>>

\* Path.is_relative_to(q): relative_to(q) does not raise. The comparison is of the
\* parts as written; nothing is looked up in the file system.
IsRelativeTo(p, q) ==
  IF q = <<>> THEN ~IsAbsolute(p)
  ELSE Len(q) <= Len(p) /\ SubSeq(p, 1, Len(q)) = q

\* Path.relative_to(q), where it does not raise
RelativeTo(p, q) == SubSeq(p, Len(q) + 1, Len(p))

\* Path.is_file() and Path.is_dir(): the operating system resolves a relative path
\* against the working directory.
IsFile(p) == Absolute(p) \in DOMAIN fsFiles
IsDir(p) == Absolute(p) \in fsDirs

\* os.listdir(p): the names in directory p
ListDir(p) ==
  { q[Len(q)] : q \in { r \in (DOMAIN fsFiles) \cup fsDirs :
                          Len(r) = Len(Absolute(p)) + 1 /\ IsRelativeTo(r, Absolute(p)) } }

(* ---------------------------------------------------------------------- *)
(* parse_args(), iterfiles(), outputfile() and main().                    *)
(* ---------------------------------------------------------------------- *)

\* Mutant of ConfigError: the test for an input file in the output directory is missing.
ConfigError_SamePathOnly(inp, out) == Absolute(inp) = Absolute(out)

\* parse_args: parser.error is called (the process exits with status 2)
ConfigError(inp, out) ==
  \/ Absolute(inp) = Absolute(out)
  \/ IsFile(Absolute(inp)) /\ IsDir(Absolute(out)) /\ Parent(Absolute(inp)) = Absolute(out)

\* Mutant of outputfile: a file of a directory input is written under its name alone.
outputfile_flat(input_path, output_path, input_file) ==
  IF IsFile(input_path) /\ ~IsDir(output_path) THEN output_path
  ELSE Join(output_path, <<Name(input_file)>>)

\* outputfile(input_path, output_path, input_file); <<"ValueError">> where
\* relative_to raises
outputfile(input_path, output_path, input_file) ==
  IF IsFile(input_path) /\ IsDir(output_path) THEN Join(output_path, <<Name(input_file)>>)
  ELSE IF IsFile(input_path) THEN output_path
  ELSE IF IsRelativeTo(input_file, input_path)
       THEN Join(output_path, RelativeTo(input_file, input_path))
       ELSE <<"ValueError">>

\* Mutant of Raise: the error is swallowed and the loop goes on to the next file.
Raise_Swallowed == "iter"

\* An exception raised in main's loop is caught nowhere: the run ends.
Raise == "failed"

\* What the pipeline writes for a document: see Pipeline and C4.
Normalize(content) == "normalized"

Event(op, path) == <<op, path>>

\* A frame of the generator iterfiles(path, recursive): at "start" nothing has run;
\* at "file" the path itself was yielded; at "listed" the loop over the directory's
\* names runs, todo being the names not yet visited; at "yielded" the child
\* `pending` was yielded.
Frame(path, at, todo, pending) ==
  [path |-> path, at |-> at, todo |-> todo, pending |-> pending]

Top == stack[Len(stack)]
Pop == SubSeq(stack, 1, Len(stack) - 1)
ReplaceTop(f) == [stack EXCEPT ![Len(stack)] = f]

\* args = parse_args(); for input_file in iterfiles(args.input, args.recursive)
ParseArgs ==
  /\ dpc = "parse_args"
  /\ IF ConfigError(argv.input, argv.output)
     THEN dpc' = "config_error" /\ stack' = <<>>
     ELSE dpc' = "iter" /\ stack' = <<Frame(argv.input, "start", {}, <<>>)>>
  /\ UNCHANGED <<argv, fsFiles, fsDirs, cur, outFile, loaded, log>>
  /\ UNCHANGED tvars

\* if path.is_file(): yield path
IterFile ==
  /\ dpc = "iter" /\ stack # <<>> /\ Top.at = "start"
  /\ IF IsFile(Top.path)
     THEN /\ cur' = Top.path
          /\ dpc' = "check"
          /\ log' = Append(log, Event("yield", Top.path))
          /\ stack' = ReplaceTop([Top EXCEPT !.at = "file"])
     ELSE /\ stack' = ReplaceTop([Top EXCEPT !.at = "file"])
          /\ UNCHANGED <<cur, dpc, log>>
  /\ UNCHANGED <<argv, fsFiles, fsDirs, outFile, loaded>>
  /\ UNCHANGED tvars

\* if path.is_dir(): for f in path.iterdir(), the names listed at once; a path that
\* is no directory ends the generator
IterDir ==
  /\ dpc = "iter" /\ stack # <<>> /\ Top.at = "file"
  /\ IF IsDir(Top.path)
     THEN stack' = ReplaceTop([Top EXCEPT !.at = "listed", !.todo = ListDir(Top.path)])
     ELSE stack' = Pop
  /\ UNCHANGED <<dpc, argv, fsFiles, fsDirs, cur, outFile, loaded, log>>
  /\ UNCHANGED tvars

\* The loop's next name, in whatever order the directory gives them:
\* if f.is_file() and f.suffix == '.xsd': yield f
IterEntry ==
  /\ dpc = "iter" /\ stack # <<>> /\ Top.at = "listed" /\ Top.todo # {}
  /\ \E n \in Top.todo :
       LET f == Top.path \o <<n>>
       IN IF IsFile(f) /\ Suffix(f) = Chars(".xsd")
          THEN /\ cur' = f
               /\ dpc' = "check"
               /\ log' = Append(log, Event("yield", f))
               /\ stack' = ReplaceTop([Top EXCEPT !.at = "yielded", !.todo = @ \ {n},
                                                   !.pending = f])
          ELSE /\ stack' = ReplaceTop([Top EXCEPT !.at = "yielded", !.todo = @ \ {n},
                                                   !.pending = f])
               /\ UNCHANGED <<cur, dpc, log>>
  /\ UNCHANGED <<argv, fsFiles, fsDirs, outFile, loaded>>
  /\ UNCHANGED tvars

\* Mutant of IterRecurse: the recursive flag is not consulted.
IterRecurse_IgnoringFlag ==
  /\ dpc = "iter" /\ stack # <<>> /\ Top.at = "yielded"
  /\ LET back == ReplaceTop([Top EXCEPT !.at = "listed", !.pending = <<>>])
     IN IF IsDir(Top.pending)
        THEN stack' = Append(back, Frame(Top.pending, "start", {}, <<>>))
        ELSE stack' = back
  /\ UNCHANGED <<dpc, argv, fsFiles, fsDirs, cur, outFile, loaded, log>>
  /\ UNCHANGED tvars

\* if f.is_dir() and recursive: yield from iterfiles(f, recursive)
IterRecurse ==
  /\ dpc = "iter" /\ stack # <<>> /\ Top.at = "yielded"
  /\ LET back == ReplaceTop([Top EXCEPT !.at = "listed", !.pending = <<>>])
     IN IF IsDir(Top.pending) /\ argv.recursive
        THEN stack' = Append(back, Frame(Top.pending, "start", {}, <<>>))
        ELSE stack' = back
  /\ UNCHANGED <<dpc, argv, fsFiles, fsDirs, cur, outFile, loaded, log>>
  /\ UNCHANGED tvars

\* The loop over the directory ends: the generator returns to the one that called it.
IterReturn ==
  /\ dpc = "iter" /\ stack # <<>> /\ Top.at = "listed" /\ Top.todo = {}
  /\ stack' = Pop
  /\ UNCHANGED <<dpc, argv, fsFiles, fsDirs, cur, outFile, loaded, log>>
  /\ UNCHANGED tvars

\* The outermost generator is exhausted: main's loop ends.
IterDone ==
  /\ dpc = "iter" /\ stack = <<>>
  /\ dpc' = "done"
  /\ UNCHANGED <<argv, fsFiles, fsDirs, stack, cur, outFile, loaded, log>>
  /\ UNCHANGED tvars

\* if input_file.is_relative_to(args.output): print('Skipping', ...); continue
\* output_file = outputfile(args.input, args.output, input_file)
CheckSkip ==
  /\ dpc = "check"
  /\ IF IsRelativeTo(cur, argv.output)
     THEN /\ log' = Append(log, Event("skip", cur))
          /\ dpc' = "iter"
          /\ UNCHANGED outFile
     ELSE LET o == outputfile(argv.input, argv.output, cur)
          IN IF o = <<"ValueError">>
             THEN /\ dpc' = Raise
                  /\ log' = Append(log, Event("error", cur))
                  /\ UNCHANGED outFile
             ELSE /\ outFile' = o
                  /\ dpc' = "mkdir"
                  /\ UNCHANGED log
  /\ UNCHANGED <<argv, fsFiles, fsDirs, stack, cur, loaded>>
  /\ UNCHANGED tvars

\* The directories from the root to p
Prefixes(p) == { SubSeq(p, 1, k) : k \in 1..Len(p) }

\* output_file.parent.mkdir(parents=True, exist_ok=True): raises where a file is
\* in the way
Mkdir ==
  /\ dpc = "mkdir"
  /\ Len(Absolute(outFile)) <= MaxPathLen
  /\ LET dirs == Prefixes(Absolute(Parent(outFile)))
     IN IF dirs \cap DOMAIN fsFiles # {}
        THEN /\ dpc' = Raise
             /\ log' = Append(log, Event("error", cur))
             /\ UNCHANGED fsDirs
        ELSE /\ fsDirs' = fsDirs \cup dirs
             /\ dpc' = "load"
             /\ log' = Append(log, Event("mkdir", Parent(outFile)))
  /\ UNCHANGED <<argv, fsFiles, stack, cur, outFile, loaded>>
  /\ UNCHANGED tvars

\* transform: root = loadxml(input_file), which raises on a document that is not
\* well formed
Load ==
  /\ dpc = "load"
  /\ IF fsFiles[Absolute(cur)] = "garbage"
     THEN /\ dpc' = Raise
          /\ log' = Append(log, Event("error", cur))
          /\ UNCHANGED loaded
     ELSE /\ loaded' = fsFiles[Absolute(cur)]
          /\ dpc' = "save"
          /\ log' = Append(log, Event("load", cur))
  /\ UNCHANGED <<argv, fsFiles, fsDirs, stack, cur, outFile>>
  /\ UNCHANGED tvars

\* transform: the rewrites, then savexml(root, output_file), which raises where the
\* output path is a directory
Save ==
  /\ dpc = "save"
  /\ IF IsDir(outFile)
     THEN /\ dpc' = Raise
          /\ log' = Append(log, Event("error", cur))
          /\ UNCHANGED fsFiles
     ELSE /\ fsFiles' = [q \in (DOMAIN fsFiles) \cup {Absolute(outFile)} |->
                           IF q = Absolute(outFile) THEN Normalize(loaded) ELSE fsFiles[q]]
          /\ dpc' = "iter"
          /\ log' = Append(log, Event("save", outFile))
  /\ UNCHANGED <<argv, fsDirs, stack, cur, outFile, loaded>>
  /\ UNCHANGED tvars

\* A caller of iterfiles that only collects what it yields
Consume ==
  /\ dpc = "check"
  /\ dpc' = "iter"
  /\ UNCHANGED <<argv, fsFiles, fsDirs, stack, cur, outFile, loaded, log>>
  /\ UNCHANGED tvars

(* ---------------------------------------------------------------------- *)
(* File systems and command lines.                                        *)
(* ---------------------------------------------------------------------- *)

\* The working directory /w holds, as chosen: a.xsd (a schema, or a file that is
\* not well formed); sub, empty, or with b.xsd and c.txt, or also with out/d.xsd
\* below it; out, empty, or with a file a.xsd, or with a directory a.xsd.
FileSystems ==
  { [files |->
       LET present ==
             (IF a # "absent" THEN {CWD \o <<"a.xsd">>} ELSE {})
             \cup (IF sub \in {"b", "deep"}
                   THEN {CWD \o <<"sub", "b.xsd">>, CWD \o <<"sub", "c.txt">>} ELSE {})
             \cup (IF sub = "deep" THEN {CWD \o <<"sub", "out", "d.xsd">>} ELSE {})
             \cup (IF out = "file" THEN {CWD \o <<"out", "a.xsd">>} ELSE {})
       IN [q \in present |->
             IF q = CWD \o <<"a.xsd">> THEN a
             ELSE IF q = CWD \o <<"sub", "c.txt">> THEN "garbage"
             ELSE "schema"],
     dirs |->
       {<<"/">>, CWD}
       \cup (IF sub # "absent" THEN {CWD \o <<"sub">>} ELSE {})
       \cup (IF sub = "deep" THEN {CWD \o <<"sub", "out">>} ELSE {})
       \cup (IF out # "absent" THEN {CWD \o <<"out">>} ELSE {})
       \cup (IF out = "dir" THEN {CWD \o <<"out", "a.xsd">>} ELSE {})] :
    a \in {"absent", "schema", "garbage"},
    sub \in {"absent", "empty", "b", "deep"},
    out \in {"absent", "empty", "file", "dir"} }

\* -i: the default Path.cwd(), ".", a file in both forms, a directory
ArgInputs ==
  { CWD, <<>>, <<"a.xsd">>, CWD \o <<"a.xsd">>, <<"sub">> }

\* -o
ArgOutputs ==
  { <<"out">>, CWD \o <<"out">>, <<>>, <<"sub">>, <<"a.xsd">>, <<"out", "d.xsd">> }

NoPipeline == pc = "off" /\ input = NoTree /\ root = NoTree /\ doc = NoTree

MInit ==
  /\ dpc = "parse_args"
  /\ \E fs \in FileSystems : fsFiles = fs.files /\ fsDirs = fs.dirs
  /\ \E i \in ArgInputs, o \in ArgOutputs, r \in BOOLEAN :
       argv = [input |-> i, output |-> o, recursive |-> r]
  /\ stack = <<>> /\ cur = <<>> /\ outFile = <<>> /\ loaded = "" /\ log = <<>>
  /\ NoPipeline

MNext ==
  \/ ParseArgs
  \/ IterFile \/ IterDir \/ IterEntry \/ IterRecurse \/ IterReturn \/ IterDone
  \/ CheckSkip \/ Mkdir \/ Load \/ Save

\* main()
SpecMain == MInit /\ [][MNext]_vars

\* list(iterfiles(path, recursive)) on a file system nobody changes
IInit ==
  /\ dpc = "iter"
  /\ \E fs \in FileSystems : fsFiles = fs.files /\ fsDirs = fs.dirs
  /\ \E i \in ArgInputs \cup {<<"sub", "c.txt">>, <<"out">>}, r \in BOOLEAN :
       /\ argv = [input |-> i, output |-> <<>>, recursive |-> r]
       /\ stack = <<Frame(i, "start", {}, <<>>)>>
  /\ cur = <<>> /\ outFile = <<>> /\ loaded = "" /\ log = <<>>
  /\ NoPipeline

INext ==
  \/ IterFile \/ IterDir \/ IterEntry \/ IterRecurse \/ IterReturn \/ IterDone
  \/ Consume

SpecIter == IInit /\ [][INext]_vars

(* ---------------------------------------------------------------------- *)
(* Properties of the driver.                                              *)
(* ---------------------------------------------------------------------- *)

\* The paths of the events of kind op, in order
EventsOf(op) ==
  LET hits == SelectSeq(log, LAMBDA e : e[1] = op)
  IN [i \in 1..Len(hits) |-> hits[i][2]]

Range(seq) == { seq[i] : i \in 1..Len(seq) }

NoDuplicates(seq) == \A i \in 1..Len(seq) : \A j \in 1..Len(seq) : seq[i] = seq[j] => i = j

\* File f is the output root or lies below it, in the file system
InsideOutput(f) ==
  LET a == Absolute(f)
      o == Absolute(argv.output)
  IN Len(o) <= Len(a) /\ SubSeq(a, 1, Len(o)) = o

\* C5: a discovered file that lies inside the output root is skipped: main makes no
\* directory for it, does not load it and writes no output for it.
C5_InsideOutputSkipped ==
  dpc \in {"mkdir", "load", "save"} => ~InsideOutput(cur)

\* C6: outputfile gives the output root joined with the file's name for a file
\* input and a directory output, the output root itself for a file input and an
\* output that is no directory, and for a directory input the output root joined
\* with the file's path relative to the input root.
C6_OutputFile ==
  dpc = "mkdir" =>
    /\ (IsFile(argv.input) /\ IsDir(argv.output)) => outFile = argv.output \o <<cur[Len(cur)]>>
    /\ (IsFile(argv.input) /\ ~IsDir(argv.output)) => outFile = argv.output
    /\ IsDir(argv.input) =>
         \E k \in 1..Len(cur) :
            /\ cur = argv.input \o SubSeq(cur, k, Len(cur))
            /\ outFile = argv.output \o SubSeq(cur, k, Len(cur))

\* C6 witness: the output path of sub/b.xsd, found under a directory input, is
\* <output root>/sub/b.xsd.
C6_Witness ==
  /\ dpc = "mkdir"
  /\ IsDir(argv.input)
  /\ cur = argv.input \o <<"sub", "b.xsd">>
  /\ outFile = argv.output \o <<"sub", "b.xsd">>

\* What iterfiles(root, recursive) is to yield, from the file system
Expected ==
  LET r == argv.input
      a == Absolute(r)
  IN IF a \in DOMAIN fsFiles THEN {r}
     ELSE IF a \in fsDirs
     THEN { r \o SubSeq(q, Len(a) + 1, Len(q)) :
              q \in { f \in DOMAIN fsFiles :
                        /\ Len(f) > Len(a) /\ SubSeq(f, 1, Len(a)) = a
                        /\ argv.recursive \/ Len(f) = Len(a) + 1
                        /\ f[Len(f)] \in {"a.xsd", "b.xsd", "d.xsd"} } }
     ELSE {}

\* C7: iterfiles yields the root alone when it is a file; for a directory the
\* direct child files with the .xsd extension, and with the recursive flag those
\* at every depth; each once, and nothing else.
C7_IterFiles ==
  /\ NoDuplicates(EventsOf("yield"))
  /\ Range(EventsOf("yield")) \subseteq Expected
  /\ dpc = "done" => Range(EventsOf("yield")) = Expected

\* C7 witness: a finished recursive walk that yielded a file three levels below the
\* root, of a directory that also holds a file without the extension.
C7_Witness ==
  /\ dpc = "done"
  /\ argv.recursive
  /\ \E f \in Range(EventsOf("yield")) : Len(f) = Len(argv.input) + 3
  /\ CWD \o <<"sub", "c.txt">> \in DOMAIN fsFiles

\* The configurations parse_args is to refuse
SamePath == Absolute(argv.input) = Absolute(argv.output)

FileInOutputDirectory ==
  /\ Absolute(argv.input) \in DOMAIN fsFiles
  /\ Absolute(argv.output) \in fsDirs
  /\ Front(Absolute(argv.input)) = Absolute(argv.output)

\* C8: a run whose input and output are the same absolute path, or whose input is
\* a file directly in the output directory, ends in a configuration error before
\* any file is discovered, read, created or written.
C8_ConfigErrorFirst ==
  (dpc # "off" /\ (SamePath \/ FileInOutputDirectory)) =>
    /\ dpc \in {"parse_args", "config_error"}
    /\ log = <<>>
    /\ stack = <<>>

\* C8 witness: a run refused for an input file in the output directory, the two
\* paths differing.
C8_Witness ==
  /\ dpc = "config_error"
  /\ ~SamePath
  /\ FileInOutputDirectory

\* C9: the driver is sequential and fails fast. A file's mkdir, load and save
\* follow its discovery with nothing between; the files loaded are the files
\* discovered and not skipped, in that order; an error is the last thing that
\* happens in a run; and every output written is still there as written.
C9_SequentialFailFast ==
  /\ \A i \in 1..Len(log) :
       /\ log[i][1] = "mkdir" => i > 1 /\ log[i - 1][1] = "yield"
       /\ log[i][1] = "load" => i > 1 /\ log[i - 1][1] = "mkdir" /\ log[i][2] = log[i - 2][2]
       /\ log[i][1] = "save" => i > 1 /\ log[i - 1][1] = "load"
       /\ log[i][1] = "skip" => i > 1 /\ log[i - 1] = Event("yield", log[i][2])
       /\ log[i][1] = "error" => i = Len(log) /\ dpc = "failed"
       /\ log[i][1] = "save" =>
            /\ Absolute(log[i][2]) \in DOMAIN fsFiles
            /\ fsFiles[Absolute(log[i][2])] = "normalized"
  /\ dpc = "failed" => (log # <<>> /\ log[Len(log)][1] = "error")
  /\ LET found == EventsOf("yield")
         skipped == EventsOf("skip")
         kept == SelectSeq(found, LAMBDA f : f \notin Range(skipped))
         read == EventsOf("load")
     IN /\ Len(read) <= Len(kept)
        /\ read = SubSeq(kept, 1, Len(read))

\* C9 witness: a run that failed on a file after it wrote the output of an earlier
\* one, with names of the directory still unvisited.
C9_Witness ==
  /\ dpc = "failed"
  /\ \E i \in 1..Len(log) : log[i][1] = "save"
  /\ \E k \in 1..Len(stack) : stack[k].todo # {}

=============================================================================
